---- MODULE Spec2Model ----
(***************************************************************************)
(* tk-http-file, src/input.rs: Input::from_headers builds the request      *)
(* Input (mode, accept_encoding, range, conditional slots) from a method   *)
(* and a header iterator; Input::file_at probes the filesystem for the     *)
(* first encoded variant of a path, in the Input's encoding order.         *)
(*                                                                         *)
(* from_headers is modelled with one step per position of its code: the    *)
(* method match, one iteration of the header loop, and the finalization.   *)
(* file_at likewise: the call prologue, one iteration of the probe loop,   *)
(* and the return after the loop.                                          *)
(***************************************************************************)
EXTENDS Integers, Sequences, FiniteSets, TLC

VARIABLES
    pc,            \* position of the single request being served
    method,        \* from_headers argument `method`
    headers,       \* the items the `headers` iterator yields, in order
    reads,         \* number of next() calls made on the header iterator
    mode,          \* local `mode` of from_headers (line 37)
    ae_parser,     \* local `ae_parser`: the values add_header received
    range_parser,  \* local `range_parser`: the values add_header received
    finalized,     \* order in which the builders' done() were called
    input,         \* the Input returned by from_headers
    self,          \* receiver of the running file_at call
    fs,            \* filesystem: probe path -> outcome of open + metadata
    enc_iter,      \* position of the `self.encodings()` iterator
    probes,        \* paths opened by the running file_at call, in order
    stdout,        \* lines the running file_at call printed with println!
    log,           \* lines the running file_at call emitted through error!
    result,        \* return value of file_at
    first          \* outcome of the first file_at call, kept for comparison

vars == <<pc, method, headers, reads, mode, ae_parser, range_parser, finalized,
          input, self, fs, enc_iter, probes, stdout, log, result, first>>

(***************************************************************************)
(* Bounds of the model.                                                    *)
(***************************************************************************)
MaxHeaders == 2

(***************************************************************************)
(* Option<T> and Vec<T>.                                                   *)
(***************************************************************************)
None == <<>>
Some(x) == <<x>>
VecNew == <<>>

(***************************************************************************)
(* ASCII case folding, character by character.  A header name is a         *)
(* sequence of one-character strings.                                      *)
(***************************************************************************)
UpperChars == <<"A","C","D","E","F","G","H","I","M","N","O","P","R","S","T","U">>
LowerChars == <<"a","c","d","e","f","g","h","i","m","n","o","p","r","s","t","u">>

to_ascii_lowercase(c) ==
    IF \E i \in 1..Len(UpperChars) : UpperChars[i] = c
    THEN LowerChars[CHOOSE i \in 1..Len(UpperChars) : UpperChars[i] = c]
    ELSE c

eq_exact(a, b) == a = b

eq_ignore_ascii_case(a, b) ==
    /\ Len(a) = Len(b)
    /\ \A i \in 1..Len(a) : to_ascii_lowercase(a[i]) = to_ascii_lowercase(b[i])

LitAcceptEncoding == <<"a","c","c","e","p","t","-","e","n","c","o","d","i","n","g">>
LitRange == <<"r","a","n","g","e">>

(***************************************************************************)
(* Request inputs.                                                         *)
(***************************************************************************)
Methods == {"HEAD", "GET", "head", "get", "POST"}

AcceptEncodingNames ==
    { LitAcceptEncoding,
      <<"A","c","c","e","p","t","-","E","n","c","o","d","i","n","g">>,
      <<"A","C","C","E","P","T","-","e","n","c","o","d","i","n","g">> }

RangeNames ==
    { LitRange, <<"R","a","n","g","e">>, <<"R","A","N","G","E">> }

OtherNames ==
    { <<"I","f","-","R","a","n","g","e">>,
      <<"I","f","-","M","a","t","c","h">>,
      <<"I","f","-","N","o","n","e","-","M","a","t","c","h">>,
      <<"I","f","-","M","o","d","i","f","i","e","d","-","S","i","n","c","e">>,
      <<"I","f","-","U","n","m","o","d","i","f","i","e","d","-","S","i","n","c","e">>,
      <<"R","a","n","g","e","s">> }

HeaderNames == AcceptEncodingNames \cup RangeNames \cup OtherNames

HeaderValues == {"br", "gzip", "bytes=0-9"}

HeaderItems == HeaderNames \X HeaderValues

HeaderSeqs == UNION { [1..n -> HeaderItems] : n \in 0..MaxHeaders }

(***************************************************************************)
(* The external builders (accept_encoding::AcceptEncodingParser and        *)
(* range::RangeParser) and the encodings' suffixes.  A builder's state is  *)
(* the sequence of raw values it was fed; done() is a function of it.      *)
(***************************************************************************)
AcceptEncodingParser_new == <<>>
RangeParser_new == <<>>

ae_add_header(parser, val) == Append(parser, val)
range_add_header(parser, val) == Append(parser, val)

AcceptEncoding_identity == <<"identity">>

RECURSIVE ListedEncodings(_)
ListedEncodings(parser) ==
    IF parser = <<>> THEN <<>>
    ELSE LET rest == ListedEncodings(Tail(parser))
             e == Head(parser)
         IN  IF e \in {"br", "gzip"}
             THEN <<e>> \o SelectSeq(rest, LAMBDA x : x # e)
             ELSE rest

\* AcceptEncodingParser::done: the encodings named, first mention first, then
\* identity; the identity-only default when nothing usable was fed.
ae_done(parser) == ListedEncodings(parser) \o AcceptEncoding_identity

WellFormedRange(val) == val = "bytes=0-9"

\* RangeParser::done: Ok(None) without a Range header, Ok(Some(range)) when
\* every value fed is well formed, Err(()) otherwise.
range_done(parser) ==
    IF \E i \in 1..Len(parser) : ~WellFormedRange(parser[i])
    THEN [ok |-> FALSE, value |-> None]
    ELSE IF parser = <<>>
         THEN [ok |-> TRUE, value |-> None]
         ELSE [ok |-> TRUE, value |-> Some(parser)]

suffix(enc) ==
    CASE enc = "br" -> ".br"
      [] enc = "gzip" -> ".gz"
      [] OTHER -> ""

\* Output::from_file(self, enc, &meta, f)
Output_from_file(s, enc, meta, f) ==
    [encoding |-> enc, file |-> f, metadata |-> meta]

(***************************************************************************)
(* Input::from_headers                                                     *)
(***************************************************************************)
Modes == {"Head", "Get", "InvalidMethod", "InvalidRange"}

NoInput ==
    [mode |-> "-", accept_encoding |-> <<>>, range |-> None, if_range |-> None,
     if_match |-> VecNew, if_none |-> VecNew,
     if_unmodified |-> None, if_modified |-> None]

classify_ignore_case(m) ==
    CASE m \in {"HEAD", "head"} -> "Head"
      [] m \in {"GET", "get"} -> "Get"
      [] OTHER -> "InvalidMethod"

\* match method { "HEAD" => .., "GET" => .., _ => return .. }
classify(m) ==
    CASE m = "HEAD" -> "Head"
      [] m = "GET" -> "Get"
      [] OTHER -> "InvalidMethod"

InvalidMethodInput ==
    [mode |-> "InvalidMethod", accept_encoding |-> AcceptEncoding_identity,
     range |-> None, if_range |-> None, if_match |-> VecNew, if_none |-> VecNew,
     if_unmodified |-> None, if_modified |-> None]

InvalidRangeInput_keeps_encoding(ae) ==
    [mode |-> "InvalidRange", accept_encoding |-> ae_done(ae),
     range |-> None, if_range |-> None, if_match |-> VecNew, if_none |-> VecNew,
     if_unmodified |-> None, if_modified |-> None]

\* the Input returned when range_parser.done() is Err(()); `ae` is the
\* encoding builder in scope at that return
InvalidRangeInput(ae) ==
    [mode |-> "InvalidRange", accept_encoding |-> AcceptEncoding_identity,
     range |-> None, if_range |-> None, if_match |-> VecNew, if_none |-> VecNew,
     if_unmodified |-> None, if_modified |-> None]

SuccessInput_drops_range(md, ae, range) ==
    [mode |-> md, accept_encoding |-> ae, range |-> None, if_range |-> None,
     if_match |-> VecNew, if_none |-> VecNew,
     if_unmodified |-> None, if_modified |-> None]

SuccessInput_if_range(md, ae, range) ==
    [mode |-> md, accept_encoding |-> ae, range |-> range, if_range |-> range,
     if_match |-> VecNew, if_none |-> VecNew,
     if_unmodified |-> None, if_modified |-> None]

SuccessInput(md, ae, range) ==
    [mode |-> md, accept_encoding |-> ae, range |-> range, if_range |-> None,
     if_match |-> VecNew, if_none |-> VecNew,
     if_unmodified |-> None, if_modified |-> None]

\* the if / else-if chain of the header loop: which builder a name goes to
route(key) ==
    IF eq_ignore_ascii_case(key, LitAcceptEncoding) THEN "accept-encoding"
    ELSE IF eq_ignore_ascii_case(key, LitRange) THEN "range"
    ELSE "ignored"

\* lines 37-52: the method match, then the two builders
from_headers(m, hs) ==
    /\ pc = "idle"
    /\ method' = m
    /\ headers' = hs
    /\ IF classify(m) = "InvalidMethod"
       THEN /\ input' = InvalidMethodInput
            /\ pc' = "built"
            /\ UNCHANGED <<mode, ae_parser, range_parser>>
       ELSE /\ mode' = classify(m)
            /\ ae_parser' = AcceptEncodingParser_new
            /\ range_parser' = RangeParser_new
            /\ pc' = "headers"
            /\ UNCHANGED input
    /\ UNCHANGED <<reads, finalized, self, fs, enc_iter, probes, stdout, log,
                   result, first>>

\* lines 53-59: one iteration of `for (key, val) in headers`
header_loop ==
    /\ pc = "headers"
    /\ reads < Len(headers)
    /\ reads' = reads + 1
    /\ LET key == headers[reads + 1][1]
           val == headers[reads + 1][2]
       IN  CASE route(key) = "accept-encoding" ->
                  /\ ae_parser' = ae_add_header(ae_parser, val)
                  /\ UNCHANGED range_parser
             [] route(key) = "range" ->
                  /\ range_parser' = range_add_header(range_parser, val)
                  /\ UNCHANGED ae_parser
             [] OTHER -> UNCHANGED <<ae_parser, range_parser>>
    /\ UNCHANGED <<pc, method, headers, mode, finalized, input, self, fs,
                   enc_iter, probes, stdout, log, result, first>>

\* lines 53, 60-83: the iterator is exhausted, the builders are finalized
finish ==
    /\ pc = "headers"
    /\ reads = Len(headers)
    /\ reads' = reads + 1
    /\ LET range == range_done(range_parser)
       IN  IF ~range.ok
           THEN /\ input' = InvalidRangeInput(ae_parser)
                /\ finalized' = <<"range">>
           ELSE /\ input' = SuccessInput(mode, ae_done(ae_parser), range.value)
                /\ finalized' = <<"range", "accept-encoding">>
    /\ pc' = "built"
    /\ UNCHANGED <<method, headers, mode, ae_parser, range_parser, self, fs,
                   enc_iter, probes, stdout, log, result, first>>

\* the end of from_headers' scope: the Input is with the caller, the method,
\* the header iterator and the builders are gone
from_headers_return ==
    /\ pc = "built"
    /\ pc' = "ready"
    /\ method' = ""
    /\ headers' = <<>>
    /\ reads' = 0
    /\ mode' = "-"
    /\ ae_parser' = <<>>
    /\ range_parser' = <<>>
    /\ finalized' = <<>>
    /\ UNCHANGED <<input, self, fs, enc_iter, probes, stdout, log, result, first>>

(***************************************************************************)
(* Input::file_at                                                          *)
(***************************************************************************)
BasePaths == {"index.html", "app.js"}

Encodings == {"br", "gzip", "identity"}

\* what File::open(p).and_then(|f| f.metadata()) meets at one path
DiskEntries == {"File", "Missing", "Denied", "StatFails"}

ProbePaths(p) == { p \o suffix(e) : e \in Encodings }

Disks(p) == [ProbePaths(p) -> DiskEntries]

NoDisk == [p \in {} |-> "Missing"]

\* File::open(path).and_then(|f| f.metadata().map(|m| (f, m)))
open_and_metadata(disk, p) ==
    CASE disk[p] = "File" -> [ok |-> TRUE, kind |-> "-"]
      [] disk[p] = "Missing" -> [ok |-> FALSE, kind |-> "NotFound"]
      [] disk[p] = "Denied" -> [ok |-> FALSE, kind |-> "PermissionDenied"]
      [] OTHER -> [ok |-> FALSE, kind |-> "Other"]

RECURSIVE Reverse(_)
Reverse(s) == IF s = <<>> THEN <<>> ELSE Append(Reverse(Tail(s)), Head(s))

encodings_reversed(s) == Reverse(s.accept_encoding)

\* pub fn encodings(&self) -> EncodingIter
encodings(s) == s.accept_encoding

\* the receivers a second file_at call is made on: the Input with another mode
Siblings(s) == { [s EXCEPT !.mode = m] : m \in Modes \ {s.mode} }

NoRun == [mode |-> "-", probes |-> <<>>, result |-> None]

Enter_refuses_invalid_mode(s, p, disk) ==
    /\ self' = s
    /\ fs' = [path |-> p, disk |-> disk]
    /\ stdout' = <<<<"Mode", s.mode>>>>
    /\ enc_iter' = 0
    /\ probes' = <<>>
    /\ log' = <<>>
    /\ result' = None
    /\ pc' = IF s.mode \in {"InvalidMethod", "InvalidRange"}
             THEN "returned" ELSE "probing"

\* lines 90-93: the prologue of a file_at call on receiver s
Enter(s, p, disk) ==
    /\ self' = s
    /\ fs' = [path |-> p, disk |-> disk]
    /\ stdout' = <<<<"Mode", s.mode>>>>
    /\ enc_iter' = 0
    /\ probes' = <<>>
    /\ log' = <<>>
    /\ result' = None
    /\ pc' = "probing"

\* the first call, on the Input from_headers returned
file_at(p, disk) ==
    /\ pc = "ready"
    /\ Enter(input, p, disk)
    /\ UNCHANGED <<method, headers, reads, mode, ae_parser, range_parser,
                   finalized, input, first>>

\* a second call, same path and disk, on an Input that differs in mode only
file_at_sibling(s) ==
    /\ pc = "returned"
    /\ first = NoRun
    /\ s \in Siblings(self)
    /\ first' = [mode |-> self.mode, probes |-> probes, result |-> result]
    /\ Enter(s, fs.path, fs.disk)
    /\ UNCHANGED <<method, headers, reads, mode, ae_parser, range_parser,
                   finalized, input>>

\* probe, but an error other than NotFound ends the call with None
probe_gives_up_on_error ==
    /\ pc = "probing"
    /\ enc_iter < Len(encodings(self))
    /\ LET enc == encodings(self)[enc_iter + 1]
           buf == fs.path \o suffix(enc)
           opened == open_and_metadata(fs.disk, buf)
       IN  /\ probes' = Append(probes, buf)
           /\ enc_iter' = enc_iter + 1
           /\ IF opened.ok
              THEN /\ result' = Some(Output_from_file(self, enc, buf, buf))
                   /\ pc' = "returned"
                   /\ UNCHANGED log
              ELSE IF opened.kind # "NotFound"
                   THEN /\ log' = Append(log, <<"Error serving", buf, opened.kind>>)
                        /\ result' = None
                        /\ pc' = "returned"
                   ELSE UNCHANGED <<log, pc, result>>
    /\ UNCHANGED <<method, headers, reads, mode, ae_parser, range_parser,
                   finalized, input, self, fs, stdout, first>>

\* probe, but a candidate that fails with an error other than NotFound is
\* tried a second time before the loop moves on
probe_retries_on_error ==
    /\ pc = "probing"
    /\ enc_iter < Len(encodings(self))
    /\ LET enc == encodings(self)[enc_iter + 1]
           buf == fs.path \o suffix(enc)
           opened == open_and_metadata(fs.disk, buf)
           again == /\ ~opened.ok
                    /\ opened.kind # "NotFound"
                    /\ (probes = <<>> \/ probes[Len(probes)] # buf)
       IN  /\ probes' = Append(probes, buf)
           /\ enc_iter' = IF again THEN enc_iter ELSE enc_iter + 1
           /\ IF opened.ok
              THEN /\ result' = Some(Output_from_file(self, enc, buf, buf))
                   /\ pc' = "returned"
                   /\ UNCHANGED log
              ELSE /\ log' = IF opened.kind # "NotFound"
                             THEN Append(log, <<"Error serving", buf, opened.kind>>)
                             ELSE log
                   /\ UNCHANGED <<pc, result>>
    /\ UNCHANGED <<method, headers, reads, mode, ae_parser, range_parser,
                   finalized, input, self, fs, stdout, first>>

\* lines 94-110: one iteration of `for enc in self.encodings()`
probe ==
    /\ pc = "probing"
    /\ enc_iter < Len(encodings(self))
    /\ LET enc == encodings(self)[enc_iter + 1]
           buf == fs.path \o suffix(enc)
           opened == open_and_metadata(fs.disk, buf)
       IN  /\ probes' = Append(probes, buf)
           /\ enc_iter' = enc_iter + 1
           /\ IF opened.ok
              THEN /\ result' = Some(Output_from_file(self, enc, buf, buf))
                   /\ pc' = "returned"
                   /\ UNCHANGED log
              ELSE /\ log' = IF opened.kind # "NotFound"
                             THEN Append(log, <<"Error serving", buf, opened.kind>>)
                             ELSE log
                   /\ UNCHANGED <<pc, result>>
    /\ UNCHANGED <<method, headers, reads, mode, ae_parser, range_parser,
                   finalized, input, self, fs, stdout, first>>

\* line 112: the iterator is exhausted
exhausted ==
    /\ pc = "probing"
    /\ enc_iter = Len(encodings(self))
    /\ result' = None
    /\ pc' = "returned"
    /\ UNCHANGED <<method, headers, reads, mode, ae_parser, range_parser,
                   finalized, input, self, fs, enc_iter, probes, stdout, log,
                   first>>

(***************************************************************************)
(* The specification.                                                      *)
(***************************************************************************)
Init ==
    /\ pc = "idle"
    /\ method = ""
    /\ headers = <<>>
    /\ reads = 0
    /\ mode = "-"
    /\ ae_parser = <<>>
    /\ range_parser = <<>>
    /\ finalized = <<>>
    /\ input = NoInput
    /\ self = NoInput
    /\ fs = [path |-> "", disk |-> NoDisk]
    /\ enc_iter = 0
    /\ probes = <<>>
    /\ stdout = <<>>
    /\ log = <<>>
    /\ result = None
    /\ first = NoRun

Next ==
    \/ pc = "idle" /\ \E m \in Methods, hs \in HeaderSeqs : from_headers(m, hs)
    \/ header_loop
    \/ finish
    \/ from_headers_return
    \/ pc = "ready" /\ \E p \in BasePaths : \E disk \in Disks(p) : file_at(p, disk)
    \/ pc = "returned" /\ \E s \in Siblings(self) : file_at_sibling(s)
    \/ probe
    \/ exhausted

Spec == Init /\ [][Next]_vars

\* a started call is scheduled until it returns
FairSpec == Spec /\ WF_vars(header_loop) /\ WF_vars(finish)
                 /\ WF_vars(from_headers_return)
                 /\ WF_vars(probe) /\ WF_vars(exhausted)

(***************************************************************************)
(* Properties of Input::from_headers.  They are stated at pc = "built",    *)
(* where the Input has been constructed and the arguments and locals of    *)
(* the call are still in scope.                                            *)
(***************************************************************************)
IsDefaultConditionals(i) ==
    /\ i.if_range = <<>>
    /\ i.if_match = <<>>
    /\ i.if_none = <<>>
    /\ i.if_unmodified = <<>>
    /\ i.if_modified = <<>>

InCall == pc \in {"headers", "built"}

\* the values of the first n headers whose name is one of `names`, in order
RECURSIVE ValuesOf(_, _)
ValuesOf(names, n) ==
    IF n = 0 THEN <<>>
    ELSE IF headers[n][1] \in names
         THEN Append(ValuesOf(names, n - 1), headers[n][2])
         ELSE ValuesOf(names, n - 1)

ItemsRead == IF reads > Len(headers) THEN Len(headers) ELSE reads

\* C1: a method other than exactly "HEAD" or "GET" yields InvalidMethod with
\* the identity-only encoding, no range and empty conditional fields, and the
\* header iterator is never read.
C1_InvalidMethod ==
    (InCall /\ method \notin {"HEAD", "GET"}) =>
        /\ pc = "built"
        /\ input.mode = "InvalidMethod"
        /\ input.accept_encoding = <<"identity">>
        /\ input.range = <<>>
        /\ IsDefaultConditionals(input)
        /\ reads = 0
        /\ ae_parser = <<>>
        /\ range_parser = <<>>

C1_Witness ==
    /\ pc = "built"
    /\ method = "get"
    /\ Len(headers) = 2
    /\ headers[1][1] \in RangeNames
    /\ headers[2][1] \in AcceptEncodingNames
    /\ headers[2][2] = "gzip"
    /\ input.mode = "InvalidMethod"

\* C2: for HEAD or GET, when the range builder's finalization fails the Input
\* is InvalidRange with no range and the identity-only encoding, whatever the
\* encoding builder was fed.
C2_InvalidRange ==
    (pc = "built" /\ method \in {"HEAD", "GET"} /\ ~range_done(range_parser).ok) =>
        /\ input.mode = "InvalidRange"
        /\ input.range = <<>>
        /\ input.accept_encoding = <<"identity">>

C2_Witness ==
    /\ pc = "built"
    /\ method = "GET"
    /\ ~range_done(range_parser).ok
    /\ ae_parser = <<"gzip">>
    /\ ae_done(ae_parser) = <<"gzip", "identity">>
    /\ input.mode = "InvalidRange"

\* C5: for HEAD or GET, when range finalization succeeds the Input has mode
\* Head for "HEAD" and Get for "GET", the range builder's finalized range
\* (absent when no Range header was seen) and the encoding builder's finalized
\* preference; the range is finalized first, and the encoding is finalized
\* only on this path.
C5_Success ==
    (pc = "built" /\ method \in {"HEAD", "GET"}) =>
        IF range_done(range_parser).ok
        THEN /\ input.mode = (IF method = "HEAD" THEN "Head" ELSE "Get")
             /\ input.range = range_done(range_parser).value
             /\ (ValuesOf(RangeNames, Len(headers)) = <<>> => input.range = <<>>)
             /\ input.accept_encoding = ae_done(ae_parser)
             /\ finalized = <<"range", "accept-encoding">>
        ELSE finalized = <<"range">>

C5_Witness ==
    /\ pc = "built"
    /\ method = "HEAD"
    /\ input.mode = "Head"
    /\ input.range = <<<<"bytes=0-9">>>>
    /\ input.accept_encoding = <<"br", "identity">>

\* C6: while the headers are aggregated (method HEAD or GET), the encoding
\* builder has been fed exactly the values of the headers read so far whose
\* name is accept-encoding in any letter case, and the range builder those
\* whose name is range in any letter case, once each and in iterator order;
\* the other headers are fed to neither.
C6_Routing ==
    (InCall /\ method \in {"HEAD", "GET"}) =>
        /\ ae_parser = ValuesOf(AcceptEncodingNames, ItemsRead)
        /\ range_parser = ValuesOf(RangeNames, ItemsRead)
        /\ (pc = "built" => reads = Len(headers) + 1)

C6_Witness ==
    /\ pc = "built"
    /\ method = "GET"
    /\ Len(headers) = 2
    /\ headers[1][1] = <<"A","c","c","e","p","t","-","E","n","c","o","d","i","n","g">>
    /\ headers[2][1] = LitAcceptEncoding
    /\ ae_parser = <<"gzip", "br">>
    /\ range_parser = <<>>

\* C7: every Input from_headers returns, on each of its three return paths and
\* whatever the headers, has if_range, if_unmodified and if_modified absent and
\* if_match and if_none empty.
C7_ConditionalsEmpty ==
    pc \in {"built", "ready"} => IsDefaultConditionals(input)

C7_Witness ==
    /\ pc = "built"
    /\ input.mode = "Get"
    /\ input.range # <<>>
    /\ Len(headers) = 2
    /\ headers[2][1] = <<"I","f","-","R","a","n","g","e">>

(***************************************************************************)
(* Properties of Input::file_at.                                           *)
(***************************************************************************)
Candidates == self.accept_encoding

\* the path probed for the i-th candidate of the preference order
PathOf(i) == fs.path \o suffix(Candidates[i])

Succeeds(i) == fs.disk[PathOf(i)] = "File"

\* the i-th candidate fails with an error other than "not found"
FailsLoudly(i) == fs.disk[PathOf(i)] \in {"Denied", "StatFails"}

FirstHit == CHOOSE k \in 1..Len(Candidates) :
                Succeeds(k) /\ \A j \in 1..(k - 1) : ~Succeeds(j)

ExpectedProbes(n) == [i \in 1..n |-> PathOf(i)]

\* C3: file_at returns the variant of the first encoding, in preference
\* order, whose probe path opens and yields metadata; the encoding returned is
\* that candidate's and no later candidate is probed.
C3_FirstSuccessWins ==
    (pc = "returned" /\ \E k \in 1..Len(Candidates) : Succeeds(k)) =>
        /\ result # <<>>
        /\ result[1].encoding = Candidates[FirstHit]
        /\ result[1].file = PathOf(FirstHit)
        /\ probes = ExpectedProbes(FirstHit)

C3_Witness ==
    /\ pc = "returned"
    /\ self.accept_encoding = <<"br", "gzip", "identity">>
    /\ fs.path = "index.html"
    /\ fs.disk["index.html.br"] = "Missing"
    /\ fs.disk["index.html.gz"] = "File"
    /\ fs.disk["index.html"] = "File"
    /\ result # <<>>
    /\ result[1].encoding = "gzip"
    /\ probes = <<"index.html.br", "index.html.gz">>

\* C4: a failed probe of any kind only makes the loop go on to the next
\* candidate; the call returns None if and only if every candidate of the
\* preference order failed its probe, and otherwise returns a match.
C4_FailSoft ==
    /\ pc = "probing" =>
           /\ enc_iter = Len(probes)
           /\ \A i \in 1..enc_iter : ~Succeeds(i)
    /\ pc = "returned" =>
           /\ (result = <<>>) <=> (\A i \in 1..Len(Candidates) : ~Succeeds(i))
           /\ result = <<>> => probes = ExpectedProbes(Len(Candidates))
           /\ result # <<>> => result[1].encoding \in {"br", "gzip", "identity"}

C4_Witness ==
    /\ pc = "returned"
    /\ result # <<>>
    /\ Len(probes) = 3
    /\ fs.disk[probes[1]] = "Denied"
    /\ fs.disk[probes[2]] = "StatFails"

\* C8: during one file_at call output is emitted only for failed probes whose
\* error is not "not found", one line for each, and nothing else is emitted.
C8_OutputOnlyForErrors ==
    pc \in {"probing", "returned"} =>
        Len(stdout) + Len(log) =
            Cardinality({i \in 1..Len(probes) : FailsLoudly(i)})

\* C9: every file_at call terminates; it probes the candidates in preference
\* order, each at most once, and makes at most as many probes as the
\* preference order has elements.
C9_Terminates ==
    /\ [](pc \in {"probing", "returned"} =>
            /\ Len(probes) <= Len(Candidates)
            /\ probes = ExpectedProbes(Len(probes))
            /\ \A i, j \in 1..Len(probes) : i # j => probes[i] # probes[j])
    /\ (pc = "probing" ~> pc = "returned")

C9_Witness ==
    /\ pc = "returned"
    /\ result = <<>>
    /\ Len(Candidates) = 3
    /\ Len(probes) = 3

\* C10: file_at does not consult the mode: called on Inputs that differ in
\* mode only, with the same path and disk, it probes the same paths in the
\* same order and returns the same match or None both times; and on an
\* InvalidMethod or InvalidRange Input built by from_headers it probes the
\* unsuffixed path and returns a match when that file exists.
C10_ModeBlind ==
    /\ (pc = "returned" /\ first # NoRun) =>
           /\ first.mode # self.mode
           /\ first.probes = probes
           /\ first.result = result
    /\ (pc = "returned" /\ first = NoRun
            /\ self.mode \in {"InvalidMethod", "InvalidRange"}) =>
           /\ probes = <<fs.path>>
           /\ (fs.disk[fs.path] = "File" =>
                  result # <<>> /\ result[1].encoding = "identity")

C10_Witness ==
    /\ pc = "returned"
    /\ first.mode = "Get"
    /\ self.mode = "InvalidMethod"
    /\ self.accept_encoding = <<"gzip", "identity">>
    /\ Len(probes) = 2
    /\ result # <<>>

====
